---- MODULE Spec2Model ----
(***************************************************************************)
(* Model of the memory-pipeline extraction core:                           *)
(*   - FileWalker (the FileStore adapter): directory scan, change          *)
(*     detection, the per-file status catalogue and its state file;        *)
(*   - NoteStore: upsert by note id and the notes file;                    *)
(*   - Service.Run: the staged orchestrator (collect, extract, embed,      *)
(*     save, update status), one step per collaborator call;               *)
(*   - the surroundings: another process editing the source tree, remote   *)
(*     models and file writes that may fail, abrupt process termination.   *)
(***************************************************************************)
EXTENDS Integers, Sequences, FiniteSets, TLC

VARIABLES
    disk,          \* source tree: path -> [exists, content, mtime]
    state,         \* FileWalker.state: map path -> fileState
    stateFile,     \* the state file on disk: [exists, records]
    notes,         \* NoteStore.notes: map id -> storedNote
    notesFile,     \* the notes file on disk: [exists, records]
    pc,            \* position of the process inside main.run / Service.Run
    files,         \* Service.Run: the collected batch
    file,          \* collectPendingFiles: the file NextPending returned
    i,             \* index of the running loop (1-based)
    contents,      \* extractNotes: what ReadFile returned
    allNotes,      \* extractNotes: notes accumulated so far
    embeddedNotes, \* embedNotes: embedded notes accumulated so far
    result,        \* how the run ended: "none", "ok", "err" or "killed"
    obs,           \* history of the current run (calls made, snapshots)
    err,           \* extractNotes: the error ReadFile or ExtractNotes returned
    sent,          \* history: path -> content this process read for the extractor
    seen,          \* history: path -> content on disk at the last scan of it
    hist,          \* across runs: previous result, tree edits, and what
                   \* main printed and exited with when the process ended
    budget,        \* remaining events of the surroundings and runs
    doc            \* MarkdownWriter: the notes collected and the files written

vars == <<disk, state, stateFile, notes, notesFile, pc, files, file, i,
          contents, err, allNotes, embeddedNotes, result, obs, sent, seen,
          hist, budget, doc>>

(***************************************************************************)
(* Bounds of the model.                                                    *)
(***************************************************************************)
MaxNotes == 1      \* most notes one extractor reply carries
MaxEvents == 1     \* events of the surroundings: edits of the source tree by
                   \* other processes, failed calls, abrupt terminations
MaxRuns == 2       \* runs of the pipeline
MaxDocs == 2       \* notes one MarkdownWriter collects

Paths == {"p.md", "q.MD"}
OtherPaths == {"notes.txt"}   \* a file whose suffix is not configured
Contents == {"A", "B"}
Times == {1, 2}    \* modification times (UnixNano), as far as they differ
NoteIds == {"n1", "n2"}

\* The embedding the embedder returns for a note: one per note, so that a
\* record shows which note its embedding was computed for.
Vector(n) == <<"v", n.ID, n.Path>>

(***************************************************************************)
(* Domain types (file.go).                                                 *)
(***************************************************************************)
FilePending == "pending"
FileProcessing == "processing"
FileProcessed == "processed"
FileError == "error"

NoteLearning == "learning"
NotePattern == "pattern"
NoteCookbook == "cookbook"
NoteDecision == "decision"
NoteKinds == {NoteLearning, NotePattern, NoteCookbook, NoteDecision}

File(st) == [Hash |-> st.Hash, Path |-> st.Path, Status |-> st.Status]

MemoryNote(id, c, k, p) == [ID |-> id, Content |-> c, Kind |-> k, Path |-> p]

EmbeddedNote(n, v) == [Note |-> n, Embedding |-> v]

ErrFileWalkerFileNotFound == "inbound: file_walker file not found"
ErrLLM == "outbound: llm_client request failed"

\* The error for a reply that is not 200 OK carries the body as it came; here
\* a body that is the single byte 0xFF, written <ff>, which is not UTF-8.
ErrLLMBody == "outbound: llm_client response error: status 502: <ff>"

\* A file name that is the byte 0xFF and the suffix .md: not UTF-8.
RawPath == "<ff>.md"

\* The errors LLMClient.ExtractNotes returns.
LLMErrors == {ErrLLM, ErrLLMBody}

\* The keyed digest of the file bytes, hex encoded: one value per content.
computeHash(c) == "file-walker:" \o c

(***************************************************************************)
(* FileWalker (the FileStore adapter).                                     *)
(***************************************************************************)

\* A Go map with no entries.
EmptyMap == [x \in {} |-> 0]

\* fileState: one record of the catalogue.
fileState(h, p, r, s, m) ==
    [Hash |-> h, Path |-> p, Reason |-> r, Status |-> s, ModTime |-> m]

\* json.Marshal of a string: bytes that are not UTF-8 become U+FFFD, written
\* <fffd>; the other strings that occur are UTF-8 and are kept.
ToValidUTF8(x) ==
    CASE x = ErrLLMBody ->
             "outbound: llm_client response error: status 502: <fffd>"
      [] x = RawPath -> "<fffd>.md"
      [] OTHER -> x

\* json.Marshal of a fileState: "reason" carries omitempty.
MarshalState(st) ==
    IF st.Reason = ""
    THEN [hash |-> ToValidUTF8(st.Hash), path |-> ToValidUTF8(st.Path),
          status |-> ToValidUTF8(st.Status), mod_time |-> st.ModTime]
    ELSE [hash |-> ToValidUTF8(st.Hash), path |-> ToValidUTF8(st.Path),
          reason |-> ToValidUTF8(st.Reason),
          status |-> ToValidUTF8(st.Status), mod_time |-> st.ModTime]

\* json.Unmarshal of one record of the state file.
UnmarshalState(r) ==
    fileState(r.hash, r.path,
              IF "reason" \in DOMAIN r THEN r.reason ELSE "",
              r.status, r.mod_time)

\* saveState: the whole catalogue, in map order, written over the file.
saveState(cat) ==
    [exists |-> TRUE, records |-> {MarshalState(cat[p]) : p \in DOMAIN cat}]

\* Variant: the state file is not read at start-up.
loadState_Forgets(f) == EmptyMap

\* loadState as NewFileWalker uses it: a missing file leaves the map empty.
loadState(f) ==
    IF ~f.exists
    THEN EmptyMap
    ELSE [p \in {r.path : r \in f.records} |->
             UnmarshalState(CHOOSE r \in f.records : r.path = p)]

\* filepath.Ext and strings.ToLower on the suffixes that occur.
Ext(p) ==
    CASE p = "p.md" -> ".md"
      [] p = "q.MD" -> ".MD"
      [] p = "notes.txt" -> ".txt"
      [] OTHER -> ""

ToLower(x) == CASE x = ".MD" -> ".md" [] x = ".TXT" -> ".txt" [] OTHER -> x

\* The configured extensions.
Extensions == {".md"}

\* The extension lists APP_FILE_EXTENSIONS can configure (NewConfig splits
\* the variable at the commas and keeps the parts as written).
ExtensionSets == {{".md"}, {".MD"}, {".txt"}, {".TXT"}, {".md", ".txt"}}

\* hasValidExtension of a FileWalker constructed with the extensions exts:
\* slices.Contains(a.extensions, strings.ToLower(filepath.Ext(path))).
hasValidExtensionIn(exts, p) == ToLower(Ext(p)) \in exts

\* Variant: every file of the tree is taken.
hasValidExtension_Any(p) == TRUE

\* hasValidExtension: the lowercased suffix is one of the configured ones.
hasValidExtension(p) == ToLower(Ext(p)) \in Extensions

\* Variant: a changed file is made pending but keeps its old reason.
updateExistingFile_KeepsReason(existing, d) ==
    IF existing.ModTime = d.mtime
    THEN existing
    ELSE IF existing.Hash # computeHash(d.content)
         THEN [existing EXCEPT !.ModTime = d.mtime,
                               !.Hash = computeHash(d.content),
                               !.Status = FilePending]
         ELSE [existing EXCEPT !.ModTime = d.mtime]

\* Variant: a changed file gets its new hash but keeps its status.
updateExistingFile_KeepsStatus(existing, d) ==
    IF existing.ModTime = d.mtime
    THEN existing
    ELSE [existing EXCEPT !.ModTime = d.mtime,
                          !.Hash = computeHash(d.content)]

\* Variant: a new ModTime alone makes the file pending.
updateExistingFile_TouchResets(existing, d) ==
    IF existing.ModTime = d.mtime
    THEN existing
    ELSE [existing EXCEPT !.ModTime = d.mtime,
                          !.Hash = computeHash(d.content),
                          !.Status = FilePending,
                          !.Reason = ""]

\* updateExistingFile: an equal ModTime skips the hash; otherwise the ModTime
\* is refreshed and a different hash resets the file to pending.
updateExistingFile(existing, d) ==
    IF existing.ModTime = d.mtime
    THEN existing
    ELSE IF existing.Hash # computeHash(d.content)
         THEN [existing EXCEPT !.ModTime = d.mtime,
                               !.Hash = computeHash(d.content),
                               !.Status = FilePending,
                               !.Reason = ""]
         ELSE [existing EXCEPT !.ModTime = d.mtime]

\* processDiscoveredFile: a tracked file is updated, a new one added pending.
processDiscoveredFile(cat, p, d) ==
    IF p \in DOMAIN cat
    THEN updateExistingFile(cat[p], d)
    ELSE fileState(computeHash(d.content), p, "", FilePending, d.mtime)

\* The files WalkDir hands to processDiscoveredFile.
Discovered(dk) == {p \in DOMAIN dk : dk[p].exists /\ hasValidExtension(p)}

\* scanDirectory: the catalogue after one walk of the source tree.
scanDirectory(cat, dk) ==
    [p \in DOMAIN cat \cup Discovered(dk) |->
        IF p \in Discovered(dk)
        THEN processDiscoveredFile(cat, p, dk[p])
        ELSE cat[p]]

\* Variant: entries in error are handed out again.
PendingPaths_WithErrors(cat) ==
    {p \in DOMAIN cat : cat[p].Status \in {FilePending, FileError}}

\* The entries NextPending may return: Go's map order is not fixed.
PendingPaths(cat) == {p \in DOMAIN cat : cat[p].Status = FilePending}

\* Variant: MarkProcessing leaves the status as it was.
MarkProcessing_StaysPending(cat, p) == [cat EXCEPT ![p].Reason = ""]

\* Variant: MarkProcessing leaves the reason as it was.
MarkProcessing_KeepsReason(cat, p) ==
    [cat EXCEPT ![p].Status = FileProcessing]

\* MarkProcessing / MarkProcessed / MarkError on the in-memory catalogue.
MarkProcessing(cat, p) ==
    [cat EXCEPT ![p].Status = FileProcessing, ![p].Reason = ""]

\* Variant: the status is left as it was.
MarkProcessed_KeepsStatus(cat, p) == [cat EXCEPT ![p].Reason = ""]

MarkProcessed(cat, p) ==
    [cat EXCEPT ![p].Status = FileProcessed, ![p].Reason = ""]

\* Variant: the reason is not recorded.
MarkError_NoReason(cat, p, reason) ==
    [cat EXCEPT ![p].Status = FileError, ![p].Reason = ""]

MarkError(cat, p, reason) ==
    [cat EXCEPT ![p].Status = FileError, ![p].Reason = reason]

(***************************************************************************)
(* NoteStore.                                                              *)
(***************************************************************************)

\* Variant: the record does not say which file the note came from.
storedNote_NoPath(en) ==
    [Content |-> en.Note.Content, ID |-> en.Note.ID, Kind |-> en.Note.Kind,
     Path |-> "", Embedding |-> en.Embedding]

\* storedNote: the record SaveNote builds from an embedded note.
storedNote(en) ==
    [Content |-> en.Note.Content, ID |-> en.Note.ID, Kind |-> en.Note.Kind,
     Path |-> en.Note.Path, Embedding |-> en.Embedding]

\* A SaveNote that adds a second entry when the id is already held.
SaveNote_Appends(ns, en) ==
    LET key == IF en.Note.ID \in DOMAIN ns THEN en.Note.Content ELSE en.Note.ID
    IN  [id \in DOMAIN ns \cup {key} |->
            IF id = key THEN storedNote(en) ELSE ns[id]]

\* SaveNote on the in-memory map: upsert by note id.
SaveNote(ns, en) ==
    [id \in DOMAIN ns \cup {en.Note.ID} |->
        IF id = en.Note.ID THEN storedNote(en) ELSE ns[id]]

\* json.Marshal of a storedNote.
MarshalNote(n) ==
    [Content |-> ToValidUTF8(n.Content), ID |-> ToValidUTF8(n.ID),
     Kind |-> ToValidUTF8(n.Kind), Path |-> ToValidUTF8(n.Path),
     Embedding |-> n.Embedding]

\* saveNotes: the whole collection written over the notes file.
saveNotes(ns) ==
    [exists |-> TRUE, records |-> {MarshalNote(ns[id]) : id \in DOMAIN ns}]

\* loadNotes as NewNoteStore uses it: a missing file leaves the map empty.
loadNotes(f) ==
    IF ~f.exists
    THEN EmptyMap
    ELSE [id \in {r.ID : r \in f.records} |->
             CHOOSE r \in f.records : r.ID = id]

(***************************************************************************)
(* MarkdownWriter: notes collected by kind, rendered into five files.      *)
(***************************************************************************)

\* One line of a written file: what it is, its text, and the number it shows.
Line(tag, text, n) == [tag |-> tag, text |-> text, n |-> n]

\* The categories of Finalize, in the order it writes them.
Categories ==
    << [kind |-> NoteLearning, title |-> "Learnings", filename |-> "learnings.md"],
       [kind |-> NotePattern, title |-> "Patterns", filename |-> "patterns.md"],
       [kind |-> NoteCookbook, title |-> "Cookbooks", filename |-> "cookbooks.md"],
       [kind |-> NoteDecision, title |-> "Decisions", filename |-> "decisions.md"] >>

\* The files of the docs directory, in the order Finalize writes them.
DocOrder ==
    <<"index.md">> \o [k \in 1..Len(Categories) |-> Categories[k].filename]

DocNames == {DocOrder[k] : k \in 1..Len(DocOrder)}

\* NewMarkdownWriter: nothing collected; no file of the docs directory exists.
NewMarkdownWriter ==
    [notes |-> [k \in NoteKinds |-> <<>>], files |-> [f \in DocNames |-> <<>>]]

\* The notes a writer holds, over all kinds.
Collected(d) ==
    Len(d.notes[NoteLearning]) + Len(d.notes[NotePattern])
        + Len(d.notes[NoteCookbook]) + Len(d.notes[NoteDecision])

\* WriteDoc: the note is appended to the list of its kind.
WriteDoc(d, note) == [d EXCEPT !.notes[note.Kind] = Append(@, note)]

\* The byte order of the paths, which slices.Sort follows.
PathRank(p) == CASE p = "p.md" -> 1 [] p = "q.MD" -> 2 [] OTHER -> 3

\* A sort that puts the largest path first.
SortPaths_Descending(S) ==
    CHOOSE sq \in [1..Cardinality(S) -> S] :
        \A a, b \in 1..Cardinality(S) :
            a < b => PathRank(sq[a]) > PathRank(sq[b])

\* slices.Sort over the keys of notesByPath.
SortPaths(S) ==
    CHOOSE sq \in [1..Cardinality(S) -> S] :
        \A a, b \in 1..Cardinality(S) :
            a < b => PathRank(sq[a]) < PathRank(sq[b])

\* writeIndex: the title, one line per category with its count, the total.
writeIndex(ns) ==
    <<Line("#", "Knowledge Base", 0)>>
        \o [k \in 1..Len(Categories) |->
               Line("-", Categories[k].filename, Len(ns[Categories[k].kind]))]
        \o <<Line("total", "Total Notes", Len(ns[NoteLearning]) + Len(ns[NotePattern])
                       + Len(ns[NoteCookbook]) + Len(ns[NoteDecision]))>>

RECURSIVE NoteLines(_)
\* The inner loop of writeCategoryFile: each note's content, then a rule.
NoteLines(list) ==
    IF list = <<>>
    THEN <<>>
    ELSE <<Line("note", Head(list).Content, 0), Line("---", "", 0)>>
             \o NoteLines(Tail(list))

RECURSIVE PathSections(_, _)
\* The outer loop of writeCategoryFile: a header per path, then its notes.
PathSections(paths, notesByPath) ==
    IF paths = <<>>
    THEN <<>>
    ELSE <<Line("##", Head(paths), 0)>>
             \o NoteLines(notesByPath[Head(paths)])
             \o PathSections(Tail(paths), notesByPath)

\* writeCategoryFile: title, then the placeholder or the notes grouped by path.
writeCategoryFile(ns, cat) ==
    LET list == ns[cat.kind]
        notesByPath ==
            [p \in {list[k].Path : k \in 1..Len(list)} |->
                SelectSeq(list, LAMBDA n : n.Path = p)]
    IN  <<Line("#", cat.title, 0)>>
            \o IF Len(list) = 0
               THEN <<Line("*", "No notes in this category yet.", 0)>>
               ELSE PathSections(SortPaths(DOMAIN notesByPath), notesByPath)

\* What Finalize writes into the file at place k of DocOrder.
Rendered(ns, k) ==
    IF k = 1 THEN writeIndex(ns) ELSE writeCategoryFile(ns, Categories[k - 1])

\* A Finalize that forgets the notes once they are written.
Finalize_Drains(d, upto) ==
    [notes |-> [k \in NoteKinds |-> <<>>],
     files |-> [f \in DocNames |->
                  LET k == CHOOSE j \in 1..Len(DocOrder) : DocOrder[j] = f
                  IN  IF k <= upto THEN Rendered(d.notes, k) ELSE d.files[f]]]

\* Finalize: the index and the category files are written in order; a failed
\* write ends it, with the files before it written (upto of them).
Finalize(d, upto) ==
    [d EXCEPT !.files =
        [f \in DocNames |->
            LET k == CHOOSE j \in 1..Len(DocOrder) : DocOrder[j] = f
            IN  IF k <= upto THEN Rendered(d.notes, k) ELSE d.files[f]]]

(***************************************************************************)
(* The surroundings: the source tree and another process editing it.       *)
(***************************************************************************)

NoFile == [exists |-> FALSE, content |-> "", mtime |-> 0]

OnDisk(c, m) == [exists |-> TRUE, content |-> c, mtime |-> m]

Max(a, b) == IF a > b THEN a ELSE b

\* The tree is read by the scan of NextPending and by ReadFile only, so an
\* edit is placed right before one of them, or between two processes.
TreeIsRead == pc \in {"off", "collect", "extract"}

\* Another process writes a file: new content, a new mtime, or both (a write
\* within the timestamp granularity keeps the mtime).
WriteFile ==
    /\ TreeIsRead
    /\ budget.events > 0
    /\ \E p \in Paths, c \in Contents, m \in Times :
          /\ disk[p] # OnDisk(c, m)
          /\ disk' = [disk EXCEPT ![p] = OnDisk(c, m)]
    /\ budget' = [budget EXCEPT !.events = @ - 1]
    /\ hist' = [hist EXCEPT !.dirty = 2]
    /\ UNCHANGED <<state, stateFile, notes, notesFile, pc, files, file, i,
                   contents, err, allNotes, embeddedNotes, result, obs, sent,
                   seen, doc>>

\* Another process removes a file.
RemoveFile ==
    /\ TreeIsRead
    /\ budget.events > 0
    /\ \E p \in Paths :
          /\ disk[p].exists
          /\ disk' = [disk EXCEPT ![p] = NoFile]
    /\ budget' = [budget EXCEPT !.events = @ - 1]
    /\ hist' = [hist EXCEPT !.dirty = 2]
    /\ UNCHANGED <<state, stateFile, notes, notesFile, pc, files, file, i,
                   contents, err, allNotes, embeddedNotes, result, obs, sent,
                   seen, doc>>

(***************************************************************************)
(* The process: main.run constructs the adapters and calls Service.Run.    *)
(***************************************************************************)

NoCurrent == [Hash |-> "", Path |-> "", Status |-> ""]

Statuses(cat) == [p \in DOMAIN cat |-> cat[p].Status]

\* What a run remembers of its start, and the calls it has made.
NewObs(cat, sf, nf) ==
    [status0 |-> Statuses(cat), stateFile0 |-> sf, notesFile0 |-> nf,
     nextCalls |-> 0,
     calls |-> 0, embeds |-> 0, saves |-> 0, failed |-> {},
     embedFailed |-> FALSE, saveFailed |-> FALSE, reset |-> {},
     refreshed |-> {}, call |-> <<>>,
     reads |-> <<>>, saved |-> <<>>, repeated |-> FALSE]

InRun == pc \in {"collect", "mark", "extract", "llm", "markerr", "embed",
                 "save", "update"}

\* main.run: NewFileWalker and NewNoteStore load their files, Run starts.
Start ==
    /\ pc = "off"
    /\ state' = loadState(stateFile)
    /\ notes' = loadNotes(notesFile)
    /\ pc' = "collect"
    /\ result' = "none"
    /\ obs' = NewObs(state', stateFile, notesFile)
    /\ hist' = [hist EXCEPT !.prev = result, !.dirty = Max(@ - 1, 0),
                            !.out = <<>>, !.code = 0]
    /\ UNCHANGED <<doc, disk, stateFile, notesFile, files, file, i, contents, err,
                   allNotes, embeddedNotes, sent, seen>>

\* One of the MaxRuns invocations of the program.
Boot ==
    /\ budget.runs > 0
    /\ Start
    /\ budget' = [budget EXCEPT !.runs = @ - 1]

\* The program invoked again and again, for as long as one likes.
Rerun ==
    /\ Start
    /\ UNCHANGED budget

\* The process ends, by returning from main or by abrupt termination: what
\* was in memory is gone, the files stay.
Gone ==
    /\ pc' = "off"
    /\ state' = EmptyMap
    /\ notes' = EmptyMap
    /\ files' = <<>>
    /\ file' = NoCurrent
    /\ i' = 0
    /\ contents' = ""
    /\ err' = ""
    /\ allNotes' = <<>>
    /\ embeddedNotes' = <<>>
    /\ obs' = NewObs(EmptyMap, stateFile, notesFile)
    /\ sent' = [p \in Paths |-> ""]
    /\ UNCHANGED <<doc, disk, stateFile, notesFile, seen>>

\* The lines main prints.
ErrorLine == "Error: "
CompletedLine == "Extraction completed successfully"

\* main: the error of run, if any, is printed; then the completion message.
Printed(r) ==
    IF r = "err" THEN <<ErrorLine, CompletedLine>> ELSE <<CompletedLine>>

\* main returns after run has returned: the process ends with exit code 0.
Exit ==
    /\ pc = "done"
    /\ Gone
    /\ hist' = [hist EXCEPT !.out = Printed(result), !.code = 0]
    /\ UNCHANGED <<result, budget>>

Terminate ==
    /\ InRun
    /\ budget.events > 0
    /\ Gone
    /\ result' = "killed"
    /\ UNCHANGED hist
    /\ budget' = [budget EXCEPT !.events = @ - 1]

(***************************************************************************)
(* Service.Run, one step per call of a collaborator.                       *)
(***************************************************************************)

\* Run returns r.
Return(r) ==
    /\ pc' = "done"
    /\ result' = r
    /\ i' = 0
    /\ file' = NoCurrent
    /\ contents' = ""
    /\ err' = ""
    /\ embeddedNotes' = <<>>

\* A call that may fail takes an event from the budget when it does.
Outcome(ok) ==
    /\ ok \/ budget.events > 0
    /\ budget' = IF ok THEN budget ELSE [budget EXCEPT !.events = @ - 1]

\* Variant: the files are marked processed right after extraction.
StageAfterExtract_StatusFirst(ns) == "update"

\* Variant: the embed stage is entered whatever was extracted.
StageAfterExtract_AlwaysEmbed(ns) == "embed"

\* The stage Run enters when extractNotes has returned the notes ns.
StageAfterExtract(ns) == IF Len(ns) = 0 THEN "update" ELSE "embed"

\* History: the tracked files a scan resets to pending, and those whose
\* ModTime alone it refreshes.
ResetBy(cat, dk) ==
    {p \in DOMAIN cat \cap Discovered(dk) :
        scanDirectory(cat, dk)[p].Hash # cat[p].Hash}

RefreshedBy(cat, dk) ==
    {p \in DOMAIN cat \cap Discovered(dk) :
        /\ scanDirectory(cat, dk)[p].Hash = cat[p].Hash
        /\ scanDirectory(cat, dk)[p].ModTime # cat[p].ModTime}

\* collectPendingFiles: FileWalker.NextPending scans the tree and returns a
\* pending entry of the catalogue, or ErrFileStoreNoMoreFiles, which ends
\* the loop; an empty batch ends the run.
NextPending ==
    /\ pc = "collect"
    /\ LET cat == scanDirectory(state, disk) IN
          /\ state' = cat
          /\ IF PendingPaths(cat) = {}
             THEN IF Len(files) = 0
                  THEN Return("ok")
                  ELSE /\ pc' = "extract"
                       /\ i' = 1
                       /\ UNCHANGED <<file, contents, err, embeddedNotes,
                                      result>>
             ELSE /\ \E p \in PendingPaths(cat) : file' = File(cat[p])
                  /\ pc' = "mark"
                  /\ UNCHANGED <<i, contents, err, embeddedNotes, result>>
    /\ obs' = [obs EXCEPT !.nextCalls = @ + 1,
                           !.reset = ResetBy(state, disk),
                           !.refreshed = RefreshedBy(state, disk)]
    /\ seen' = [p \in Paths |->
                  IF p \in Discovered(disk) THEN disk[p].content ELSE seen[p]]
    /\ UNCHANGED <<doc, disk, stateFile, notes, notesFile, files, allNotes, sent,
                   hist, budget>>

\* collectPendingFiles: FileWalker.MarkProcessing of the returned file, which
\* then joins the batch; a failed write of the state file ends the run.
CollectMark ==
    /\ pc = "mark"
    /\ file.Path \in DOMAIN state
    /\ \E ok \in BOOLEAN :
          /\ Outcome(ok)
          /\ state' = MarkProcessing(state, file.Path)
          /\ IF ok
             THEN /\ stateFile' = saveState(state')
                  /\ files' = Append(files, file)
                  /\ pc' = "collect"
                  /\ file' = NoCurrent
                  /\ UNCHANGED <<i, contents, err, embeddedNotes, result>>
             ELSE /\ Return("err")
                  /\ UNCHANGED <<stateFile, files>>
    /\ sent' = [sent EXCEPT ![file.Path] = ""]
    /\ obs' = [obs EXCEPT !.calls = @ + 1]
    /\ UNCHANGED <<doc, disk, notes, notesFile, allNotes, seen, hist>>

\* extractNotes: FileWalker.ReadFile of the i-th file of the batch reads what
\* is on disk now; a missing file is ErrFileWalkerFileNotFound.
ReadFile ==
    /\ pc = "extract"
    /\ LET p == files[i].Path IN
          IF disk[p].exists
          THEN /\ contents' = disk[p].content
               /\ sent' = [sent EXCEPT ![p] = disk[p].content]
               /\ pc' = "llm"
               /\ UNCHANGED err
          ELSE /\ err' = ErrFileWalkerFileNotFound
               /\ pc' = "markerr"
               /\ UNCHANGED <<contents, sent>>
    /\ obs' = [obs EXCEPT !.calls = @ + 1,
                           !.reads = Append(@, files[i].Path)]
    /\ UNCHANGED <<doc, disk, state, stateFile, notes, notesFile, files, file, i,
                   allNotes, embeddedNotes, result, seen, hist, budget>>

\* The notes ExtractNotes builds from what the model returned for a file:
\* the id and the content are the model's, and the content may be empty.
ExtractedNotes(p) ==
    {MemoryNote(id, "note", NoteLearning, p) : id \in NoteIds}
        \cup {MemoryNote("n1", "", NoteLearning, p)}

\* The replies of the extractor for a file: up to MaxNotes notes.
Replies(p) == UNION {[1..n -> ExtractedNotes(p)] : n \in 0..MaxNotes}

\* Variant: the extract loop ends after its first file.
AfterFile_FirstFileOnly(ns) == pc' = StageAfterExtract(ns) /\ i' = 1

\* The step of the extract loop after the i-th file, ns being the notes so far.
AfterFile(ns) ==
    IF i < Len(files)
    THEN pc' = "extract" /\ i' = i + 1
    ELSE pc' = StageAfterExtract(ns) /\ i' = 1

\* extractNotes: LLMClient.ExtractNotes on the contents read; its notes are
\* appended, its failure goes to MarkError.
ExtractNotes ==
    /\ pc = "llm"
    /\ \E ok \in BOOLEAN :
          /\ Outcome(ok)
          /\ IF ok
             THEN /\ \E ns \in Replies(files[i].Path) :
                        /\ allNotes' = allNotes \o ns
                        /\ AfterFile(allNotes')
                  /\ contents' = ""
                  /\ UNCHANGED err
             ELSE /\ err' \in LLMErrors
                  /\ pc' = "markerr"
                  /\ UNCHANGED <<allNotes, i, contents>>
    /\ obs' = [obs EXCEPT !.calls = @ + 1]
    /\ UNCHANGED <<doc, disk, state, stateFile, notes, notesFile, files, file,
                   embeddedNotes, result, sent, seen, hist>>

\* extractNotes: FileWalker.MarkError with the error's message, then the next
\* file; a failed write of the state file ends the run.
ExtractMarkError ==
    /\ pc = "markerr"
    /\ files[i].Path \in DOMAIN state
    /\ \E ok \in BOOLEAN :
          /\ Outcome(ok)
          /\ state' = MarkError(state, files[i].Path, err)
          /\ IF ok
             THEN /\ stateFile' = saveState(state')
                  /\ AfterFile(allNotes)
                  /\ contents' = ""
                  /\ err' = ""
                  /\ UNCHANGED <<file, embeddedNotes, result>>
             ELSE /\ Return("err")
                  /\ UNCHANGED stateFile
    /\ obs' = [obs EXCEPT !.calls = @ + 1, !.failed = @ \cup {files[i].Path}]
    /\ UNCHANGED <<doc, disk, notes, notesFile, files, allNotes, sent, seen, hist>>

\* Variant: a note whose embedding fails is dropped and the run goes on.
Embed_DropsFailedNote ==
    /\ pc = "embed"
    /\ \E ok \in BOOLEAN :
          /\ Outcome(ok)
          /\ embeddedNotes' =
                IF ok
                THEN Append(embeddedNotes,
                            EmbeddedNote(allNotes[i], Vector(allNotes[i])))
                ELSE embeddedNotes
          /\ IF i < Len(allNotes)
             THEN i' = i + 1 /\ pc' = "embed"
             ELSE i' = 1 /\ pc' = IF Len(embeddedNotes') = 0 THEN "update"
                                                               ELSE "save"
          /\ obs' = [obs EXCEPT !.calls = @ + 1,
                                 !.embeds = IF ok THEN @ + 1 ELSE @,
                                 !.embedFailed = @ \/ ~ok]
    /\ UNCHANGED <<doc, disk, state, stateFile, notes, notesFile, files, file,
                   contents, err, allNotes, result, sent, seen, hist>>

\* embedNotes: EmbeddingClient.Embed of the i-th note, which refuses a note
\* without content; a failure ends the run.
Embed ==
    /\ pc = "embed"
    /\ \E ok \in BOOLEAN :
          /\ IF allNotes[i].Content = ""
             THEN ~ok /\ UNCHANGED budget
             ELSE Outcome(ok)
          /\ IF ok
             THEN /\ embeddedNotes' =
                        Append(embeddedNotes,
                               EmbeddedNote(allNotes[i], Vector(allNotes[i])))
                  /\ IF i < Len(allNotes)
                     THEN i' = i + 1 /\ pc' = "embed"
                     ELSE i' = 1 /\ pc' = "save"
                  /\ UNCHANGED <<file, contents, err, result>>
                  /\ obs' = [obs EXCEPT !.calls = @ + 1, !.embeds = @ + 1]
             ELSE /\ Return("err")
                  /\ obs' = [obs EXCEPT !.calls = @ + 1, !.embedFailed = TRUE]
    /\ UNCHANGED <<doc, disk, state, stateFile, notes, notesFile, files, allNotes,
                   sent, seen, hist>>

\* Variant: a note that cannot be saved is skipped and the run goes on.
Save_SkipsFailedNote ==
    /\ pc = "save"
    /\ \E ok \in BOOLEAN :
          /\ Outcome(ok)
          /\ notes' = SaveNote(notes, embeddedNotes[i])
          /\ notesFile' = IF ok THEN saveNotes(notes') ELSE notesFile
          /\ IF i < Len(embeddedNotes)
             THEN i' = i + 1 /\ pc' = "save"
             ELSE i' = 1 /\ pc' = "update"
          /\ obs' = [obs EXCEPT
                       !.calls = @ + 1, !.saves = @ + 1,
                       !.saveFailed = @ \/ ~ok,
                       !.saved = Append(@, notes'[embeddedNotes[i].Note.ID])]
    /\ UNCHANGED <<file, contents, err, embeddedNotes, result>>
    /\ UNCHANGED <<doc, disk, state, stateFile, files, allNotes, sent, seen, hist>>

\* saveNotes: NoteStore.SaveNote of the i-th embedded note, map first, then
\* the notes file; a failed write ends the run.
Save ==
    /\ pc = "save"
    /\ \E ok \in BOOLEAN :
          /\ Outcome(ok)
          /\ notes' = SaveNote(notes, embeddedNotes[i])
          /\ IF ok
             THEN /\ notesFile' = saveNotes(notes')
                  /\ IF i < Len(embeddedNotes)
                     THEN i' = i + 1 /\ pc' = "save"
                     ELSE i' = 1 /\ pc' = "update"
                  /\ UNCHANGED <<file, contents, err, embeddedNotes, result>>
             ELSE /\ Return("err")
                  /\ UNCHANGED notesFile
          /\ obs' = [obs EXCEPT
                       !.calls = @ + 1, !.saves = @ + 1, !.saveFailed = ~ok,
                       !.saved = Append(@, notes'[embeddedNotes[i].Note.ID])]
    /\ UNCHANGED <<doc, disk, state, stateFile, files, allNotes, sent, seen, hist>>

\* updateFileStatus: FileWalker.MarkProcessed of the i-th file of the batch;
\* after the last one Run returns nil.
UpdateStatus ==
    /\ pc = "update"
    /\ files[i].Path \in DOMAIN state
    /\ \E ok \in BOOLEAN :
          /\ Outcome(ok)
          /\ state' = MarkProcessed(state, files[i].Path)
          /\ IF ok
             THEN /\ stateFile' = saveState(state')
                  /\ IF i < Len(files)
                     THEN /\ i' = i + 1
                          /\ UNCHANGED <<pc, file, contents, err,
                                         embeddedNotes, result>>
                     ELSE Return("ok")
             ELSE /\ Return("err")
                  /\ UNCHANGED stateFile
    /\ obs' = [obs EXCEPT !.calls = @ + 1]
    /\ UNCHANGED <<doc, disk, notes, notesFile, files, allNotes, sent, seen, hist>>

(***************************************************************************)
(* The FileWalker called directly, as its tests call it: any method, with  *)
(* any path, in any order.                                                 *)
(***************************************************************************)

\* A path no scan has put into the catalogue.
UnknownPath == "/nonexistent/file.md"

CallPaths == Paths \cup {UnknownPath}

\* The reasons a caller passes to MarkError.
Reasons == {"test error reason", ErrLLMBody}

ErrWrite == "write failed"

NoMoreFiles == "extraction: file_store has no more pending files"

\* What the direct calls leave alone.
StoreFrame ==
    UNCHANGED <<doc, disk, notes, notesFile, pc, files, i, contents, allNotes,
                embeddedNotes, result, sent, hist>>

\* Variant: a Mark* call for an unknown path writes the state file anyway.
StoreMark_SavesAnyway(p, cat, op) ==
    /\ \E ok \in BOOLEAN :
          /\ Outcome(ok)
          /\ state' = IF p \in DOMAIN state THEN cat ELSE state
          /\ IF ok
             THEN /\ stateFile' = saveState(state')
                  /\ err' = IF p \in DOMAIN state
                            THEN "" ELSE ErrFileWalkerFileNotFound
             ELSE /\ err' = ErrWrite
                  /\ UNCHANGED stateFile
    /\ obs' = [obs EXCEPT !.call = <<op, p>>]
    /\ UNCHANGED <<file, seen>>
    /\ StoreFrame

\* The body the three Mark* methods share: an unknown path is
\* ErrFileWalkerFileNotFound; otherwise the entry is changed to what cat
\* holds, then saveState writes the catalogue.
StoreMark(p, cat, op) ==
    /\ IF p \notin DOMAIN state
       THEN /\ err' = ErrFileWalkerFileNotFound
            /\ UNCHANGED <<state, stateFile, budget>>
       ELSE \E ok \in BOOLEAN :
              /\ Outcome(ok)
              /\ state' = cat
              /\ IF ok
                 THEN stateFile' = saveState(state') /\ err' = ""
                 ELSE err' = ErrWrite /\ UNCHANGED stateFile
    /\ obs' = [obs EXCEPT !.call = <<op, p>>]
    /\ UNCHANGED <<file, seen>>
    /\ StoreFrame

StoreMarkProcessing ==
    /\ pc = "off"
    /\ \E p \in CallPaths :
          StoreMark(p, MarkProcessing(state, p), "MarkProcessing")

StoreMarkProcessed ==
    /\ pc = "off"
    /\ \E p \in CallPaths :
          StoreMark(p, MarkProcessed(state, p), "MarkProcessed")

StoreMarkError ==
    /\ pc = "off"
    /\ \E p \in CallPaths, reason \in Reasons :
          StoreMark(p, MarkError(state, p, reason), "MarkError")

StoreNextPending ==
    /\ pc = "off"
    /\ LET cat == scanDirectory(state, disk) IN
          /\ state' = cat
          /\ IF PendingPaths(cat) = {}
             THEN file' = NoCurrent /\ err' = NoMoreFiles
             ELSE /\ \E p \in PendingPaths(cat) : file' = File(cat[p])
                  /\ err' = ""
    /\ seen' = [p \in Paths |->
                  IF p \in Discovered(disk) THEN disk[p].content ELSE seen[p]]
    /\ obs' = [obs EXCEPT !.call = <<"NextPending", "">>]
    /\ UNCHANGED <<stateFile, budget>>
    /\ StoreFrame

(***************************************************************************)
(* The NoteStore called directly, as its tests call it.                    *)
(***************************************************************************)

\* The notes a caller saves: two ids, two contents, an ordinary path and one
\* that is not UTF-8.
SaveInputs ==
    {EmbeddedNote(MemoryNote(id, c, NoteLearning, p), Vector([ID |-> id, Path |-> p])) :
        id \in NoteIds, c \in {"note", "other"}, p \in {"p.md", RawPath}}

NoteFrame ==
    UNCHANGED <<doc, disk, state, stateFile, pc, files, file, i, contents,
                allNotes, embeddedNotes, result, sent, seen, hist>>

\* NoteStore.SaveNote: the map entry is set, then the file is written.
NoteSave ==
    /\ pc = "off"
    /\ \E en \in SaveInputs, ok \in BOOLEAN :
          /\ Outcome(ok)
          /\ notes' = SaveNote(notes, en)
          /\ IF ok
             THEN notesFile' = saveNotes(notes') /\ err' = ""
             ELSE err' = ErrWrite /\ UNCHANGED notesFile
          /\ obs' = [obs EXCEPT !.call = <<"SaveNote", en>>,
                                !.notesFile0 = notesFile]
    /\ NoteFrame

\* NewNoteStore over the same path: the notes file is loaded.
NoteReopen ==
    /\ pc = "off"
    /\ notes' = loadNotes(notesFile)
    /\ err' = ""
    /\ obs' = [obs EXCEPT !.call = <<"NewNoteStore", "">>]
    /\ UNCHANGED <<notesFile, budget>>
    /\ NoteFrame

(***************************************************************************)
(* A FileWalker constructed with configured extensions scans the tree.     *)
(***************************************************************************)

\* NewFileWalker(sourceDir, stateFile, exts) without a state file, then the
\* scan of its first NextPending: every file of the tree with a valid
\* extension is added to the empty catalogue.
Discover ==
    /\ pc = "off"
    /\ \E exts \in ExtensionSets :
          /\ state' =
                [p \in {q \in DOMAIN disk :
                           disk[q].exists /\ hasValidExtensionIn(exts, q)} |->
                    processDiscoveredFile(EmptyMap, p, disk[p])]
          /\ obs' = [obs EXCEPT !.call = <<"NewFileWalker", exts>>]
    /\ err' = ""
    /\ UNCHANGED <<doc, disk, stateFile, notes, notesFile, pc, files, file, i,
                   contents, allNotes, embeddedNotes, result, sent, seen,
                   hist, budget>>

(***************************************************************************)
(* LLMClient.ExtractNotes on the notes the model answered.                 *)
(***************************************************************************)

\* The kind strings a model answers: the four canonical ones, none, other
\* spellings, and a word that is no kind.
KindStrings ==
    {"learning", "pattern", "cookbook", "decision", "", "Learning", "PATTERN",
     "idea"}

\* Variant: the kind string is taken as it is.
parseNoteKind_AsIs(kind) == kind

\* parseNoteKind: a switch on the exact string, NoteLearning by default.
parseNoteKind(kind) ==
    CASE kind = "cookbook" -> NoteCookbook
      [] kind = "decision" -> NoteDecision
      [] kind = "learning" -> NoteLearning
      [] kind = "pattern" -> NotePattern
      [] OTHER -> NoteLearning

\* The notes of one answer: each with an id, a kind string and a content.
Extracted ==
    UNION {[1..n -> [id : NoteIds, kind : KindStrings, content : {"note"}]] :
              n \in 0..MaxNotes}

\* The error kind of a reply that was received but is no answer.
ErrLLMClientResponse == "outbound: llm_client response error"

StatusOK == 200

\* What comes back for a chat request: whether the connection held (refused:
\* no reply; cut: the reply's body broke off), the HTTP status, the envelope
\* (well-formed, not JSON, carrying an error field, or without choices), the
\* content of the first choice (notes JSON or not), and the notes in it.
Responses ==
    [transport : {"ok", "refused", "cut"}, status : {200, 201, 502},
     envelope : {"ok", "malformed", "error", "nochoices"},
     inner : {"ok", "malformed"}, notes : Extracted]

\* sendChatRequest: the error it returns, "" when it returns the body.
sendChatRequest(resp) ==
    CASE resp.transport = "refused" -> ErrLLM
      [] resp.transport = "cut" -> ErrLLMClientResponse
      [] resp.status # StatusOK -> ErrLLMClientResponse
      [] OTHER -> ""

\* parseChatResponse: the error it returns, "" when it returns the notes.
parseChatResponse(resp) ==
    CASE resp.envelope = "malformed" -> ErrLLMClientResponse
      [] resp.envelope = "error" -> ErrLLMClientResponse
      [] resp.envelope = "nochoices" -> ErrLLMClientResponse
      [] resp.inner = "malformed" -> ErrLLMClientResponse
      [] OTHER -> ""

\* requestExtraction: the first error of the two.
requestExtraction(resp) ==
    IF sendChatRequest(resp) # "" THEN sendChatRequest(resp)
    ELSE parseChatResponse(resp)

\* The conversion loop of ExtractNotes.
NotesOf(p, extracted) ==
    [k \in 1..Len(extracted) |->
        MemoryNote(extracted[k].id, extracted[k].content,
                   parseNoteKind(extracted[k].kind), p)]

\* ExtractNotes called directly with non-empty contents, once.
ParseReply ==
    /\ pc = "off"
    /\ obs.call = <<>>
    /\ \E p \in Paths, resp \in Responses :
          /\ err' = requestExtraction(resp)
          /\ allNotes' = IF err' = "" THEN NotesOf(p, resp.notes) ELSE <<>>
          /\ obs' = [obs EXCEPT !.call = <<"ExtractNotes", resp>>]
    /\ UNCHANGED <<doc, disk, state, stateFile, notes, notesFile, pc, files,
                   file, i, contents, embeddedNotes, result, sent, seen, hist,
                   budget>>

(***************************************************************************)
(* The MarkdownWriter called directly, as its tests call it.               *)
(***************************************************************************)

\* The notes a caller hands to WriteDoc.
DocInputs ==
    {MemoryNote("n1", "note", k, p) : k \in NoteKinds, p \in Paths}
        \cup {MemoryNote("n1", "other", NoteLearning, p) : p \in Paths}

DocFrame ==
    UNCHANGED <<disk, state, stateFile, notes, notesFile, pc, files, file, i,
                contents, allNotes, embeddedNotes, result, sent, seen, hist>>

\* MarkdownWriter.WriteDoc.
DocWrite ==
    /\ pc = "off"
    /\ Collected(doc) < MaxDocs
    /\ \E note \in DocInputs :
          /\ doc' = WriteDoc(doc, note)
          /\ obs' = [obs EXCEPT !.call = <<"WriteDoc", note>>,
                                !.repeated = FALSE]
    /\ err' = ""
    /\ UNCHANGED budget
    /\ DocFrame

\* MarkdownWriter.Finalize.
DocFinalize ==
    /\ pc = "off"
    /\ \E ok \in BOOLEAN :
          /\ Outcome(ok)
          /\ IF ok
             THEN /\ doc' = Finalize(doc, Len(DocOrder))
                  /\ err' = ""
             ELSE /\ \E upto \in 0..(Len(DocOrder) - 1) :
                        doc' = Finalize(doc, upto)
                  /\ err' = ErrWrite
          /\ obs' = [obs EXCEPT
                        !.call = <<"Finalize", "">>,
                        !.repeated = /\ ok
                                     /\ obs.call # <<>>
                                     /\ obs.call[1] = "Finalize"
                                     /\ err = ""]
    /\ DocFrame

(***************************************************************************)
(* The specification.                                                      *)
(***************************************************************************)

\* A state file left by earlier invocations: q.MD was processed (no notes),
\* then p.md appeared, its extraction failed and the process was terminated
\* right after MarkError.
Leftover ==
    saveState([p \in Paths |->
                  IF p = "p.md"
                  THEN fileState(computeHash("A"), p, ErrLLM, FileError, 1)
                  ELSE fileState(computeHash("A"), p, "", FileProcessed, 1)])

\* The program is invoked on a fresh installation (empty or filled source
\* tree, no state file), or on what earlier invocations left.
\* A source tree: f for the files with a configured suffix, g for the others.
Tree(f, g) == [p \in Paths \cup OtherPaths |-> IF p \in Paths THEN f ELSE g]

Installation ==
    \/ /\ disk \in {Tree(NoFile, NoFile), Tree(NoFile, OnDisk("A", 1)),
                    Tree(OnDisk("A", 1), NoFile)}
       /\ stateFile = [exists |-> FALSE, records |-> {}]
       /\ seen = [p \in Paths |-> ""]
    \/ /\ disk = Tree(OnDisk("A", 1), NoFile)
       /\ stateFile = Leftover
       /\ seen = [p \in Paths |-> "A"]

\* No process of the program is running.
Idle ==
    /\ notes = EmptyMap
    /\ notesFile = [exists |-> FALSE, records |-> {}]
    /\ pc = "off"
    /\ files = <<>>
    /\ file = NoCurrent
    /\ i = 0
    /\ contents = ""
    /\ err = ""
    /\ allNotes = <<>>
    /\ embeddedNotes = <<>>
    /\ result = "none"
    /\ obs = NewObs(EmptyMap, stateFile, notesFile)
    /\ sent = [p \in Paths |-> ""]
    /\ hist = [prev |-> "none", dirty |-> 2, out |-> <<>>, code |-> 0]
    /\ doc = NewMarkdownWriter
    /\ budget = [events |-> MaxEvents, runs |-> MaxRuns]

Init ==
    /\ Installation
    /\ state = EmptyMap
    /\ Idle

\* NewFileWalker over an installation: the state file is loaded.
StoreInit ==
    /\ Installation
    /\ state = loadState(stateFile)
    /\ Idle

StoreNext ==
    \/ WriteFile
    \/ RemoveFile
    \/ StoreNextPending
    \/ StoreMarkProcessing
    \/ StoreMarkProcessed
    \/ StoreMarkError

StoreSpec == StoreInit /\ [][StoreNext]_vars

NotesNext == NoteSave \/ NoteReopen

NotesSpec == Init /\ [][NotesNext]_vars

DocNext == DocWrite \/ DocFinalize

DocSpec == Init /\ [][DocNext]_vars

ParseSpec == Init /\ [][ParseReply]_vars

ScanNext == WriteFile \/ RemoveFile \/ Discover

ScanSpec == Init /\ [][ScanNext]_vars

Next ==
    \/ WriteFile
    \/ RemoveFile
    \/ Boot
    \/ Exit
    \/ Terminate
    \/ NextPending
    \/ CollectMark
    \/ ReadFile
    \/ ExtractNotes
    \/ ExtractMarkError
    \/ Embed
    \/ Save
    \/ UpdateStatus

Spec == Init /\ [][Next]_vars

\* The steps of the program itself.
Program ==
    \/ Rerun
    \/ Exit
    \/ NextPending
    \/ CollectMark
    \/ ReadFile
    \/ ExtractNotes
    \/ ExtractMarkError
    \/ Embed
    \/ Save
    \/ UpdateStatus

LiveNext ==
    \/ WriteFile
    \/ RemoveFile
    \/ Terminate
    \/ Program

\* The program run again and again: a started process takes its next step,
\* and after a process has ended the program is invoked anew.
LiveSpec == Init /\ [][LiveNext]_vars /\ WF_vars(Program)

(***************************************************************************)
(* Properties.                                                             *)
(***************************************************************************)

\* The paths of the collected batch.
BatchPaths == {files[k].Path : k \in 1..Len(files)}

\* The paths from which the run has extracted at least one note.
NotePaths == {allNotes[k].Path : k \in 1..Len(allNotes)}

\* The catalogue as the state file holds it.
Persisted == loadState(stateFile)

RunSucceeded == pc = "done" /\ result = "ok"

\* C1: when Run returns success after read or extraction failed for a file p
\* of the batch and another file q gave at least one note, p has status error
\* with a non-empty reason, q has status processed, and the notes of q are in
\* the notes file.
C1_FailedFileKeepsError ==
    RunSucceeded =>
        \A p \in obs.failed, q \in (BatchPaths \ obs.failed) \cap NotePaths :
            /\ state[p].Status = FileError
            /\ state[p].Reason # ""
            /\ state[q].Status = FileProcessed
            /\ \A k \in 1..Len(allNotes) :
                  allNotes[k].Path = q =>
                      \E r \in notesFile.records :
                          r.ID = allNotes[k].ID /\ r.Path = q

\* C2: when Run returns success, every file of the batch has status processed
\* or error, in memory and in the state file, and none is left in processing.
C2_BatchSettled ==
    RunSucceeded =>
        \A p \in BatchPaths :
            /\ state[p].Status \in {FileProcessed, FileError}
            /\ p \in DOMAIN Persisted
            /\ Persisted[p].Status \in {FileProcessed, FileError}

C2_Witness == RunSucceeded /\ Cardinality(BatchPaths) = 2

\* C3: when Embed has failed in a run, Run has returned the error, SaveNote
\* was not called and the NoteStore is as it was at the start of the run, no
\* file of the batch is processed, and the files of the batch for which no
\* read or extraction failed are still in processing.
C3_EmbedFailureAborts ==
    (pc = "done" /\ obs.embedFailed) =>
        /\ result = "err"
        /\ obs.saves = 0
        /\ notesFile = obs.notesFile0
        /\ notes = loadNotes(obs.notesFile0)
        /\ \A p \in BatchPaths :
              /\ state[p].Status # FileProcessed
              /\ Persisted[p].Status # FileProcessed
              /\ p \notin obs.failed =>
                    /\ state[p].Status = FileProcessing
                    /\ Persisted[p].Status = FileProcessing

C3_Witness ==
    /\ pc = "done"
    /\ obs.embedFailed
    /\ obs.embeds >= 1
    /\ Cardinality(BatchPaths) = 2

\* The files the state file holds in status processing.
PersistedProcessing ==
    {p \in DOMAIN Persisted : Persisted[p].Status = FileProcessing}

Settled == \A p \in DOMAIN Persisted :
               Persisted[p].Status \in {FileProcessed, FileError}

\* C4: however runs were aborted, once the surroundings are quiet and the
\* program is run again and again, every file of the catalogue is eventually
\* processed or error for good; none stays in processing forever.
C4_EventuallySettled == <>[]Settled

\* The k-th extracted note of the run has not been saved yet (notes are saved
\* in the order of allNotes, and a failed save ends the run).
Unsaved(k) == k > obs.saves

QuietRerun == pc # "off" /\ hist.prev = "ok" /\ hist.dirty = 0

\* C6: a run right after a successful run over an unchanged tree is a no-op:
\* its first NextPending reports no pending file, it makes no ReadFile,
\* ExtractNotes, Embed, SaveNote or Mark* call, it returns success, and the
\* statuses of the catalogue, the state file and the NoteStore stay as loaded.
C6_SecondRunNoOp ==
    QuietRerun =>
        /\ pc \in {"collect", "done"}
        /\ obs.calls = 0
        /\ Len(files) = 0
        /\ pc = "collect" => obs.nextCalls = 0
        /\ pc = "done" => obs.nextCalls = 1 /\ result = "ok"
        /\ Statuses(state) = obs.status0
        /\ stateFile = obs.stateFile0
        /\ notesFile = obs.notesFile0
        /\ notes = loadNotes(obs.notesFile0)

C6_Witness ==
    /\ QuietRerun
    /\ pc = "done"
    /\ DOMAIN state = Paths
    /\ notesFile.records # {}

\* The tracked files a scan of the tree as it is now visits.
Visited == DOMAIN state \cap Discovered(disk)

MTimeDiffers(p) == disk[p].mtime # state[p].ModTime

HashDiffers(p) == computeHash(disk[p].content) # state[p].Hash

\* After the scan p is pending, without reason, with the hash of what is on disk.
ResetToPending(p) ==
    /\ state'[p].Status = FilePending
    /\ state'[p].Reason = ""
    /\ state'[p].Hash = computeHash(disk[p].content)

\* C7 as stated: a tracked file whose content on disk is not what the last
\* scan saw is, after the next scan, pending, without reason, and has the hash
\* of the new content.
C7_ChangedContentResets ==
    [][NextPending =>
          \A p \in Visited : seen[p] # disk[p].content => ResetToPending(p)]_vars

\* C7 as amended: a tracked file, in any status, whose mtime on disk differs
\* from the stored mod_time and whose content hash differs from the stored
\* hash is, after the next scan, pending, without reason, and has the hash of
\* the new content.
C7_ChangedTimeAndHashResets ==
    [][NextPending =>
          \A p \in Visited :
              (MTimeDiffers(p) /\ HashDiffers(p)) => ResetToPending(p)]_vars

C7_Witness ==
    /\ pc = "mark"
    /\ \E p \in obs.reset :
          /\ p \in DOMAIN obs.status0
          /\ obs.status0[p] = FileError
          /\ state[p].Status = FilePending
          /\ state[p].Reason = ""

\* C8 as stated: a tracked file whose mtime on disk differs from the stored
\* mod_time, or whose content hash differs from the stored hash, is pending
\* after the next scan.
C8_TimeOrHashResets ==
    [][NextPending =>
          \A p \in Visited :
              (MTimeDiffers(p) \/ HashDiffers(p)) =>
                  state'[p].Status = FilePending]_vars

\* C8 as amended: a tracked file whose mtime on disk differs from the stored
\* mod_time and whose content hash differs from the stored hash is pending
\* after the next scan.
C8_TimeAndHashResets ==
    [][NextPending =>
          \A p \in Visited :
              (MTimeDiffers(p) /\ HashDiffers(p)) =>
                  state'[p].Status = FilePending]_vars

C8_Witness ==
    /\ pc = "mark"
    /\ \E p \in obs.reset \cap BatchPaths : state[p].Status = FilePending

\* C9: a scan leaves the status, the reason and the hash of a tracked file
\* whose content hash on disk equals the stored hash as they were, whether or
\* not its mtime changed.
C9_SameHashKeepsStatus ==
    [][NextPending =>
          \A p \in Visited :
              ~HashDiffers(p) =>
                  /\ state'[p].Status = state[p].Status
                  /\ state'[p].Reason = state[p].Reason
                  /\ state'[p].Hash = state[p].Hash]_vars

C9_Witness ==
    /\ pc = "extract"
    /\ \E p \in obs.refreshed : state[p].Status = FileProcessing

\* C10: a processed file has the hash of the content that was read and sent
\* to the extractor for it.
C10_ProcessedHashIsExtractedHash ==
    \A p \in DOMAIN state :
        (state[p].Status = FileProcessed /\ sent[p] # "") =>
            state[p].Hash = computeHash(sent[p])

\* The status changes of the per-file state machine. A return to pending is
\* allowed from every status, which is weaker than the list of C11.
Transitions ==
    {<<FilePending, FileProcessing>>, <<FileProcessing, FileProcessed>>,
     <<FileProcessing, FileError>>, <<FileProcessed, FilePending>>,
     <<FileError, FilePending>>, <<FileProcessing, FilePending>>}

\* C11: the status of a file of the catalogue changes only along the
\* transitions of the state machine (new to pending, pending to processing,
\* processing to processed or error, back to pending only with a content
\* change a scan detects); a file in error does not become processed
\* directly.
C11_StatusStateMachine ==
    [][/\ \A p \in DOMAIN state \cap DOMAIN state' :
             state'[p].Status # state[p].Status =>
                 /\ <<state[p].Status, state'[p].Status>> \in Transitions
                 /\ state'[p].Status = FilePending =>
                        state'[p].Hash # state[p].Hash
       /\ \A p \in DOMAIN state' \ DOMAIN state :
             pc # "off" => state'[p].Status = FilePending]_vars

\* NextPending has returned a file (otherwise ErrFileStoreNoMoreFiles).
ReturnsFile == pc' = "mark"

\* C12: NextPending returns a file only if the file is pending after the
\* scan, returns ErrFileStoreNoMoreFiles exactly if no file of the catalogue
\* is pending after the scan, and does not return a file that was marked
\* processing, processed or error and whose content is as catalogued.
C12_ReturnsPendingOnly ==
    [][NextPending =>
          /\ ReturnsFile =>
                /\ file'.Path \in PendingPaths(state')
                /\ file'.Status = FilePending
                /\ file'.Hash = state'[file'.Path].Hash
          /\ ~ReturnsFile <=> PendingPaths(state') = {}
          /\ \A p \in DOMAIN state :
                (/\ state[p].Status # FilePending
                 /\ p \in Discovered(disk) => ~HashDiffers(p)) =>
                    ~(ReturnsFile /\ file'.Path = p)]_vars

C12_Witness ==
    /\ pc = "mark"
    /\ \E q \in DOMAIN state \ {file.Path} :
          state[q].Status \in {FileProcessing, FileError}

\* A Mark* call of the run has returned nil.
MarkReturnsNil ==
    /\ CollectMark \/ ExtractMarkError \/ UpdateStatus
    /\ result' # "err"

\* C13: after MarkProcessing, MarkProcessed or MarkError has returned nil, a
\* FileWalker constructed over the state file holds the catalogue that is in
\* memory: the same paths, statuses, reasons, hashes and mod_times.
C13_StateFileIsCatalogue ==
    [][MarkReturnsNil => loadState(stateFile') = state']_vars

\* C14: when NextPending returns a file, the state file already records that
\* file as pending with the returned hash.
C14_ReturnedFileIsPersisted ==
    [][(NextPending /\ ReturnsFile) =>
          /\ stateFile'.exists
          /\ \E r \in stateFile'.records :
                /\ r.path = file'.Path
                /\ r.status = FilePending
                /\ r.hash = file'.Hash]_vars

MarkOps == {"MarkProcessing", "MarkProcessed", "MarkError"}

\* C15: MarkProcessing, MarkProcessed and MarkError called with a path that
\* is not in the catalogue return ErrFileWalkerFileNotFound and leave the
\* catalogue in memory and the state file as they were.
C15_UnknownPathNotFound ==
    [][\A p \in CallPaths \ DOMAIN state :
          (/\ obs'.call # <<>>
           /\ obs'.call[1] \in MarkOps
           /\ obs'.call[2] = p) =>
              /\ err' = ErrFileWalkerFileNotFound
              /\ state' = state
              /\ stateFile' = stateFile]_vars

C15_Witness ==
    /\ obs.call # <<>>
    /\ obs.call[1] \in MarkOps
    /\ obs.call[2] = UnknownPath
    /\ err = ErrFileWalkerFileNotFound
    /\ DOMAIN state # {}
    /\ loadState(stateFile) # state

InExtractStage == pc \in {"extract", "llm", "markerr"}

\* C16: in the extract stage a failure of ReadFile or of ExtractNotes for the
\* i-th file of the batch is followed by one MarkError of that file with the
\* failure's message as reason, after which the loop goes to the next file;
\* Run returns an error from this stage only if MarkError itself fails.
C16_FailureMarksErrorAndContinues ==
    [][/\ ((ReadFile \/ ExtractNotes) /\ err' # "") =>
              (pc' = "markerr" /\ i' = i /\ state' = state)
       /\ ExtractMarkError =>
              /\ state'[files[i].Path].Status = FileError
              /\ state'[files[i].Path].Reason = err
              /\ err # ""
              /\ \A p \in DOMAIN state \ {files[i].Path} : state'[p] = state[p]
              /\ result' # "err" =>
                    /\ stateFile' = saveState(state')
                    /\ pc' # "markerr"
                    /\ i < Len(files) => (pc' = "extract" /\ i' = i + 1)
       /\ (InExtractStage /\ result' = "err") => pc = "markerr"]_vars

C16_Witness ==
    /\ pc = "extract"
    /\ i > 1
    /\ files[i - 1].Path \in obs.failed
    /\ state[files[i - 1].Path].Status = FileError
    /\ state[files[i - 1].Path].Reason \in LLMErrors

\* C17: no note without content enters the embed stage, so Embed is never
\* called with one.
C17_NoEmptyNoteEmbedded ==
    pc = "embed" => \A k \in 1..Len(allNotes) : allNotes[k].Content # ""

\* The record of the notes file with the id of note n.
PersistedNote(n) == {r \in notesFile.records : r.ID = n.ID}

ExtractedNothing ==
    /\ InExtractStage
    /\ pc' \notin {"extract", "llm", "markerr", "off"}
    /\ result' # "err"
    /\ Len(allNotes') = 0

\* C19: when the batch is not empty and no note was extracted from it, Run
\* goes from the extract stage to MarkProcessed of every file of the batch,
\* makes no Embed and no SaveNote call, and returns nil.
C19_NoNotesMarksProcessed ==
    /\ [][/\ ExtractedNothing => (pc' = "update" /\ i' = 1)
          /\ (UpdateStatus /\ Len(allNotes) = 0 /\ result' # "err") =>
                /\ state'[files[i].Path].Status = FileProcessed
                /\ IF i < Len(files)
                   THEN pc' = "update" /\ i' = i + 1
                   ELSE pc' = "done" /\ result' = "ok"]_vars
    /\ [](RunSucceeded /\ Len(files) > 0 /\ Len(allNotes) = 0 =>
             /\ \A p \in BatchPaths : state[p].Status = FileProcessed
             /\ obs.embeds = 0 /\ obs.saves = 0 /\ ~obs.embedFailed
             /\ notesFile = obs.notesFile0)

C19_Witness ==
    /\ RunSucceeded
    /\ Len(files) = 2
    /\ Len(allNotes) = 0
    /\ \A p \in BatchPaths : Persisted[p].Status = FileProcessed

\* The source tree holds no file with a configured suffix.
NothingEligible ==
    \A p \in DOMAIN disk : disk[p].exists => ToLower(Ext(p)) \notin Extensions

\* C20: when the first NextPending of a run reports no pending file (as on
\* an empty source tree, or one with other suffixes only), Run returns nil
\* without a ReadFile, ExtractNotes, Embed, SaveNote or Mark* call.
C20_NothingPendingReturnsNil ==
    /\ [][(NextPending /\ obs.nextCalls = 0) =>
             /\ (state = EmptyMap /\ NothingEligible) => ~ReturnsFile
             /\ ~ReturnsFile =>
                   /\ pc' = "done"
                   /\ result' = "ok"
                   /\ obs'.calls = 0
                   /\ stateFile' = stateFile
                   /\ notesFile' = notesFile]_vars
    /\ [](RunSucceeded /\ Len(files) = 0 =>
             /\ obs.nextCalls = 1
             /\ obs.calls = 0 /\ obs.embeds = 0 /\ obs.saves = 0
             /\ stateFile = obs.stateFile0
             /\ notesFile = obs.notesFile0)

C20_Witness ==
    /\ RunSucceeded
    /\ Len(files) = 0
    /\ state = EmptyMap
    /\ disk["notes.txt"].exists

Saved(en) ==
    /\ obs'.call = <<"SaveNote", en>>
    /\ err' = ""
    /\ NoteSave

\* C22: after SaveNote has returned nil for a note, a NoteStore constructed
\* over the same path holds the note under its id with the content, kind,
\* path and embedding saved, and still holds the notes of the other ids that
\* were in the file.
C22_SavedNoteIsReloaded ==
    [][\A en \in SaveInputs :
          Saved(en) =>
              /\ en.Note.ID \in DOMAIN loadNotes(notesFile')
              /\ loadNotes(notesFile')[en.Note.ID] =
                     [Content |-> en.Note.Content, ID |-> en.Note.ID,
                      Kind |-> en.Note.Kind, Path |-> en.Note.Path,
                      Embedding |-> en.Embedding]
              /\ \A r \in notesFile.records :
                    r.ID # en.Note.ID =>
                        \E r2 \in notesFile'.records : r2.ID = r.ID]_vars

\* The records of the notes file f with the id.
RecordsOf(f, id) == {r \in f.records : r.ID = id}

\* C23: the notes file never holds two records with the same id; after a
\* successful SaveNote the file holds exactly one record with the note's id,
\* and it has the content just saved.
C23_OneRecordPerId ==
    /\ [](\A r1, r2 \in notesFile.records : r1.ID = r2.ID => r1 = r2)
    /\ [][\A en \in SaveInputs :
             Saved(en) =>
                 /\ Cardinality(RecordsOf(notesFile', en.Note.ID)) = 1
                 /\ \A r \in RecordsOf(notesFile', en.Note.ID) :
                       r.Content = en.Note.Content]_vars

\* A note was saved again with another content, next to a note of another id.
C23_Witness ==
    /\ obs.call # <<>>
    /\ obs.call[1] = "SaveNote"
    /\ err = ""
    /\ Cardinality(notesFile.records) = 2
    /\ \E r \in RecordsOf(obs.notesFile0, obs.call[2].Note.ID) :
          r.Content # obs.call[2].Note.Content

\* C24: the notes extracted in a run have non-empty ids that differ from one
\* another, and no note saved in the run has been overwritten in the NoteStore
\* by another note of the run.
C24_ExtractedIdsAreFresh ==
    /\ \A k \in 1..Len(allNotes) : allNotes[k].ID # ""
    /\ \A j, k \in 1..Len(allNotes) :
          j # k => allNotes[j].ID # allNotes[k].ID
    /\ \A k \in 1..Len(obs.saved) :
          /\ obs.saved[k].ID \in DOMAIN notes
          /\ notes[obs.saved[k].ID] = obs.saved[k]

\* C25: every note saved in a run has been handed to the DocWriter by the
\* time it is saved, and a run that saved notes and succeeded has finalized
\* the documentation.
C25_SavedNotesAreDocumented ==
    /\ \A k \in 1..Len(obs.saved) :
          \E j \in 1..Len(doc.notes[obs.saved[k].Kind]) :
              /\ doc.notes[obs.saved[k].Kind][j].ID = obs.saved[k].ID
              /\ doc.notes[obs.saved[k].Kind][j].Path = obs.saved[k].Path
    /\ (RunSucceeded /\ obs.saved # <<>>) =>
          \A f \in DocNames : doc.files[f] # <<>>

\* The last call was a Finalize that returned nil.
Finalized ==
    /\ obs.call # <<>>
    /\ obs.call[1] = "Finalize"
    /\ err = ""

\* C26: a Finalize never changes the collected notes, and a Finalize that
\* succeeds right after a Finalize that succeeded leaves index.md and the four
\* category files with the content they had.
C26_FinalizeIdempotent ==
    [][DocFinalize =>
          /\ doc'.notes = doc.notes
          /\ (Finalized /\ err' = "") =>
                \A f \in DocNames : doc'.files[f] = doc.files[f]]_vars

\* Finalize has succeeded twice in a row over notes of two kinds.
C26_Witness ==
    /\ Finalized
    /\ obs.repeated
    /\ doc.notes[NoteLearning] # <<>>
    /\ doc.notes[NotePattern] # <<>>

\* The lines of the body from place a on, up to the next header.
Section(body, a) ==
    LET stops == {b \in a..Len(body) : body[b].tag = "##"}
        end == IF stops = {} THEN Len(body)
               ELSE (CHOOSE b \in stops : \A c \in stops : b <= c) - 1
    IN  SubSeq(body, a, end)

\* The texts of the lines with the tag, in their order.
Texts(lines, tag) ==
    LET sel == SelectSeq(lines, LAMBDA l : l.tag = tag)
    IN  [k \in 1..Len(sel) |-> sel[k].text]

\* C27: after a successful Finalize each category file has one header per
\* path that has a note of the kind, the headers ascend by path, under each
\* header stand the contents of the notes of that kind and path in the order
\* they were written, and a category without notes has the placeholder line
\* and no header.
C27_CategoryFileGrouped ==
    Finalized =>
        \A c \in 1..Len(Categories) :
            LET body == doc.files[Categories[c].filename]
                list == doc.notes[Categories[c].kind]
                heads == {a \in 1..Len(body) : body[a].tag = "##"}
            IN  /\ \A p \in Paths \cup {RawPath} :
                      Cardinality({a \in heads : body[a].text = p}) =
                          IF \E k \in 1..Len(list) : list[k].Path = p
                          THEN 1 ELSE 0
                /\ \A a, b \in heads :
                      a < b => PathRank(body[a].text) < PathRank(body[b].text)
                /\ \A a \in heads :
                      LET own == SelectSeq(list,
                                     LAMBDA n : n.Path = body[a].text)
                      IN  Texts(Section(body, a + 1), "note") =
                              [k \in 1..Len(own) |-> own[k].Content]
                /\ Len(Texts(body, "note")) = Len(list)
                /\ (list = <<>>) <=> (\E a \in 1..Len(body) : body[a].tag = "*")

\* Two learning notes were written, the one of the larger path first, and
\* the decisions category has no note.
C27_Witness ==
    /\ Finalized
    /\ Len(doc.notes[NoteLearning]) = 2
    /\ doc.notes[NoteLearning][1].Path = "q.MD"
    /\ doc.notes[NoteLearning][2].Path = "p.md"
    /\ doc.notes[NoteDecision] = <<>>

\* NextPending can return the file of the path from the current state.
CanReturn(p) == ENABLED (NextPending /\ pc' = "mark" /\ file'.Path = p)

\* C28: from one catalogue and one source tree NextPending can return one
\* file only.
C28_NextPendingDeterministic ==
    \A p, q \in Paths : (CanReturn(p) /\ CanReturn(q)) => p = q

\* C29: in the catalogue in memory and in the state file, a file has a reason
\* only when its status is error; MarkProcessing and MarkProcessed leave the
\* file without reason, and so does a scan that makes a file pending.
C29_ReasonOnlyInError ==
    /\ [](/\ \A p \in DOMAIN state :
                state[p].Reason # "" => state[p].Status = FileError
          /\ \A r \in stateFile.records :
                "reason" \in DOMAIN r => r.status = FileError)
    /\ [][/\ \A p \in DOMAIN state :
                (/\ obs'.call # <<>>
                 /\ obs'.call[1] \in {"MarkProcessing", "MarkProcessed"}
                 /\ obs'.call[2] = p) => state'[p].Reason = ""
          /\ StoreNextPending =>
                \A p \in DOMAIN state :
                    (state[p].Status # FilePending
                        /\ state'[p].Status = FilePending) =>
                            state'[p].Reason = ""]_vars

\* The file that an earlier invocation left in error, with a reason, has been
\* marked processing: it has no reason in memory or in the state file.
C29_Witness ==
    /\ obs.stateFile0 = Leftover
    /\ obs.call = <<"MarkProcessing", "p.md">>
    /\ err = ""
    /\ state["p.md"].Status = FileProcessing
    /\ state["p.md"].Reason = ""
    /\ \A r \in stateFile.records : "reason" \notin DOMAIN r

\* ExtractNotes has just returned the notes of an answer.
Parsed ==
    /\ obs.call # <<>>
    /\ obs.call[1] = "ExtractNotes"
    /\ err = ""

\* C30: each note ExtractNotes returns has the kind its kind string names
\* when that string is learning, pattern, cookbook or decision, and the kind
\* learning for every other string; so it has one of the four kinds.
C30_KindParsed ==
    Parsed =>
        \A k \in 1..Len(allNotes) :
            /\ allNotes[k].Kind \in NoteKinds
            /\ allNotes[k].Kind =
                  IF obs.call[2].notes[k].kind \in
                         {"learning", "pattern", "cookbook", "decision"}
                  THEN obs.call[2].notes[k].kind
                  ELSE "learning"

\* A kind string in capitals was answered and the note is a learning.
C30_Witness ==
    /\ Parsed
    /\ Len(allNotes) = 1
    /\ obs.call[2].notes[1].kind = "PATTERN"
    /\ allNotes[1].Kind = NoteLearning

\* C31: a file of the tree is in the catalogue after the scan of a FileWalker
\* exactly when its suffix, letter case apart, is one of the configured
\* extensions, letter case apart.
C31_DiscoveredIffSuffixConfigured ==
    [][Discover =>
          \A p \in DOMAIN disk :
              disk[p].exists =>
                  (p \in DOMAIN state' <=>
                      \E e \in obs'.call[2] : ToLower(e) = ToLower(Ext(p)))]_vars

\* The reply is a 2xx response with a well-formed envelope whose first choice
\* holds well-formed notes JSON.
GoodReply(r) ==
    /\ r.transport = "ok"
    /\ r.status \in 200..299
    /\ r.envelope = "ok"
    /\ r.inner = "ok"

\* C32: ExtractNotes fails with the response error exactly when a reply came
\* and it is not a good one; a good reply yields its notes, and a request that
\* got no reply fails with the request error.
C32_ResponseErrorExactly ==
    [][ParseReply =>
          LET r == obs'.call[2] IN
              /\ GoodReply(r) => (err' = "" /\ Len(allNotes') = Len(r.notes))
              /\ r.transport = "refused" => err' = ErrLLM
              /\ (r.transport = "ok" /\ ~GoodReply(r)) =>
                     err' = ErrLLMClientResponse]_vars

\* The process has ended by returning from main.
Exited == pc = "off" /\ hist.out # <<>>

\* C33: a process that has ended has printed the completion message only if
\* its run succeeded; after a run that returned an error it has printed the
\* error and has a non-zero exit code.
C33_CompletionOnlyOnSuccess ==
    Exited =>
        /\ (\E k \in 1..Len(hist.out) : hist.out[k] = CompletedLine) =>
               result = "ok"
        /\ result = "err" =>
               /\ \E k \in 1..Len(hist.out) : hist.out[k] = ErrorLine
               /\ hist.code # 0

\* C34: the run is about to call ReadFile or ExtractNotes only when
\* NextPending has reported no more files and every file of the batch has
\* been marked processing (and is that, or error since); about to call Embed
\* only when every file of the batch has been read; about to call SaveNote
\* only when every note has been embedded; about to call MarkProcessed only
\* when no note was extracted or every embedded note has been saved.
C34_StagesOrdered ==
       /\ pc \in {"extract", "llm"} =>
              /\ PendingPaths(state) = {}
              /\ obs.nextCalls = Len(files) + 1
              /\ \A k \in 1..Len(files) :
                    state[files[k].Path].Status \in {FileProcessing, FileError}
       /\ pc = "embed" =>
              /\ Len(obs.reads) = Len(files)
              /\ \A k \in 1..Len(files) : obs.reads[k] = files[k].Path
              /\ obs.saves = 0
       /\ pc = "save" =>
              /\ Len(embeddedNotes) = Len(allNotes)
              /\ obs.embeds = Len(allNotes)
              /\ ~obs.embedFailed
       /\ pc = "update" =>
              \/ allNotes = <<>> /\ obs.embeds = 0 /\ obs.saves = 0
              \/ /\ obs.saves = Len(allNotes)
                 /\ Len(embeddedNotes) = Len(allNotes)
                 /\ ~obs.saveFailed

\* A run over two files, of which the first gave no note and the second one
\* note, has gone through every stage.
C34_Witness ==
    /\ RunSucceeded
    /\ Len(files) = 2
    /\ Len(obs.reads) = 2
    /\ Len(allNotes) = 1
    /\ allNotes[1].Path = files[2].Path
    /\ obs.embeds = 1
    /\ obs.saves = 1

\* The source tree has not been modified since the run started.
TreeUntouched == hist.dirty < 2

\* The files that are pending at the first scan of the run, the tree being
\* as it is now.
PendingAtStart ==
    PendingPaths(scanDirectory(loadState(obs.stateFile0), disk))

\* collectPendingFiles has returned the batch.
BatchCollected ==
    \/ pc \in {"extract", "llm", "markerr", "embed", "save", "update"}
    \/ pc = "done" /\ result = "ok"

\* C35: in a run during which the source tree is not modified, every file
\* NextPending returns is marked processing before NextPending is called
\* again, the batch never exceeds the n files pending at the start, the
\* collect loop ends after n + 1 NextPending calls with the n files marked,
\* and every run that has started ends.
C35_CollectTerminates ==
    /\ []((InRun /\ TreeUntouched) =>
             /\ pc = "collect" => obs.nextCalls = Len(files)
             /\ pc = "mark" => obs.nextCalls = Len(files) + 1
             /\ Len(files) <= Cardinality(PendingAtStart)
             /\ \A k \in 1..Len(files) :
                   state[files[k].Path].Status # FilePending)
    /\ []((TreeUntouched /\ BatchCollected) =>
             /\ obs.nextCalls = Cardinality(PendingAtStart) + 1
             /\ Len(files) = Cardinality(PendingAtStart)
             /\ BatchPaths = PendingAtStart)
    /\ (InRun ~> ~InRun)

\* A run over an untouched tree with two pending files has ended: three
\* NextPending calls were made and both files were collected.
C35_Witness ==
    /\ RunSucceeded
    /\ TreeUntouched
    /\ Cardinality(PendingAtStart) = 2
    /\ obs.nextCalls = 3
    /\ Len(files) = 2

\* C36: the batch a run has collected holds each path at most once.
C36_BatchPathsDistinct ==
    \A j, k \in 1..Len(files) :
        files[j].Path = files[k].Path => j = k

\* C37: the file a NextPending call returns is one that the scan of that
\* call found in the tree with an eligible extension.
C37_ReturnedFileWasScanned ==
    [][(NextPending /\ pc' = "mark") =>
          file'.Path \in Discovered(disk)]_vars

\* The ids of the records of the notes file f.
StoredIds(f) == {r.ID : r \in f.records}

\* C38: a SaveNote of a run leaves the entries of the other ids as they
\* are, no step removes an id from the notes file, and a record of the
\* notes file stays in it: the notes of an earlier version of a file are
\* still stored after the file has been extracted again.
C38_StoredNotesRemain ==
    [][/\ Save => \A id \in DOMAIN notes :
                     id # embeddedNotes[i].Note.ID =>
                         /\ id \in DOMAIN notes'
                         /\ notes'[id] = notes[id]
       /\ StoredIds(notesFile) \subseteq StoredIds(notesFile')
       /\ notesFile.records \subseteq notesFile'.records]_vars

\* C39: a MarkProcessing, MarkProcessed or MarkError call that fails to
\* write the state file leaves the in-memory catalogue as it was.
C39_FailedMarkKeepsCatalogue ==
    [][((StoreMarkProcessing \/ StoreMarkProcessed \/ StoreMarkError)
          /\ err' = ErrWrite) => state' = state]_vars

====
